---- MODULE Spec2Model ----
(***************************************************************************)
(* birdwatcher (src/main.rs): a command line tool with three subcommands   *)
(* on one PostgreSQL table, lockTracking.                                  *)
(*   install  drops and re-creates the table                               *)
(*   scan     loops forever: INSERT INTO lockTracking SELECT the granted   *)
(*            AccessExclusiveLock locks, print the count when it changes   *)
(*   report   SELECT ... MAX(age) GROUP BY episode ORDER BY startedAt      *)
(* The model holds the table, the lock source the INSERT reads             *)
(* (pg_locks joined with pg_stat_activity, and the server clock), and one  *)
(* process at a time with its program counter and local variables.         *)
(***************************************************************************)
EXTENDS Integers, Sequences, FiniteSets, TLC

(* ------------------------------ bounds -------------------------------- *)

\* rows the table may hold: an INSERT that would go beyond is left out of the
\* model (the tick can then only fail)
MaxRows == 2
\* the server clock runs over 0..MaxTime
MaxTime == 1
\* ticks of one detector run in the specification of the whole program
MaxTicks == 1
\* ticks of one detector run in the specification of a long detector run
LongTicks == 52

(* ------------------------- program constants -------------------------- *)

\* scan: i = (i + 1) % 50
HeartbeatPeriod == 50

Pids == {1, 2}
ExclusiveMode == "AccessExclusiveLock"
Modes == {ExclusiveMode, "RowExclusiveLock"}
\* the lock requests of the model: <<mode, granted>>
Requests == {<<ExclusiveMode, TRUE>>, <<ExclusiveMode, FALSE>>, <<"RowExclusiveLock", TRUE>>}
Commands == {"install", "scan", "report"}

VARIABLES
    pc,                 \* position of the process: "idle" before any invocation
    cmd,                \* Args: cmd_install / cmd_scan / cmd_report
    flag_reset,         \* Args.flag_reset
    exitCode,           \* exit status of the last process, -1 while none has ended
    conn,               \* the Connection: "none", "open" or "broken"
    lockTracking,       \* the table: [exists, rows], rows in insertion order
    locks,              \* pg_locks joined with pg_stat_activity
    now,                \* clock_timestamp()
    i,                  \* the local i of scan / of report
    previously_found,   \* scan: previously_found
    found,              \* scan: found
    rows,               \* report: rows, the result of the REPORT query
    stdout,             \* lines printed by the invocation (scan: by the tick)
    stderr,             \* lines on the error stream, likewise
    ticks,              \* history: ticks the detector run has completed
    lastCount,          \* history: found of the previous tick, -1 before it
    appends,            \* history: INSERT attempts of the tick under way
    counted,            \* history: sum of found over the ticks of the run
    faulted,            \* history: the last statement met a broken connection
                        \*          or was refused by the server
    before,             \* history: the table as install found it
    reported            \* history: the rows of the last two reports that were
                        \*          answered, none after an install

vars == <<pc, cmd, flag_reset, exitCode, conn, lockTracking, locks, now, i,
          previously_found, found, rows, stdout, stderr, ticks, lastCount,
          appends, counted, faulted, before, reported>>

procVars == <<pc, cmd, flag_reset, exitCode, conn, i, previously_found, found,
              rows, stdout, stderr, ticks, lastCount, appends, counted, faulted, before, reported>>
envVars == <<locks, now>>
scanLocals == <<i, previously_found, found, ticks, lastCount, appends, counted>>

(* ------------------------------ helpers ------------------------------- *)

Max(S) == CHOOSE x \in S : \A y \in S : y <= x

Range(s) == {s[k] : k \in 1..Len(s)}

\* every enumeration of the finite set S as a sequence without repetition
Orderings(S) ==
    {q \in [1..Cardinality(S) -> S] : \A a, b \in 1..Cardinality(S) : a # b => q[a] # q[b]}

(* ------------------------------ the table ----------------------------- *)

EmptyTable == [exists |-> TRUE, rows |-> <<>>]

\* no report has been answered yet
NoReports == [earlier |-> <<>>, later |-> <<>>]

NoTable == [exists |-> FALSE, rows |-> <<>>]

\* DROP TABLE IF EXISTS lockTracking
DROP_TABLE(t) == NoTable

\* CREATE TABLE IF NOT EXISTS lockTracking (...)
CREATE_TABLE(t) == IF t.exists THEN t ELSE EmptyTable

\* a statement fails when the connection is broken or the server refuses it
\* (fault); INSERT and SELECT also fail when the table does not exist
Fails(fault) == conn = "broken" \/ fault

(* --------------------------- the lock source -------------------------- *)

\* columns of pg_stat_activity and pg_class that do not vary in the model
DbName == "app"
RelName == "t"
UserName == "postgres"
AppName == "psql"
QueryText == "LOCK TABLE t"

\* the arguments of age() exchanged: age(a.query_start, clock_timestamp())
Sample_Swapped(l, clock) ==
    [mode |-> l.mode, pid |-> l.pid, db |-> DbName, relation |-> RelName,
     username |-> UserName, application |-> AppName,
     startedAt |-> l.startedAt, age |-> l.startedAt - clock, query |-> QueryText]

\* one row of the INSERT's SELECT: l.mode, l.pid, a.datname, c.relname,
\* a.usename, a.application_name, a.query_start,
\* age(clock_timestamp(), a.query_start), query
Sample(l, clock) ==
    [mode |-> l.mode, pid |-> l.pid, db |-> DbName, relation |-> RelName,
     username |-> UserName, application |-> AppName,
     startedAt |-> l.startedAt, age |-> clock - l.startedAt, query |-> QueryText]

\* the WHERE clause without its test on the mode: every granted lock
Selected_AnyMode(src) == {l \in src : l.granted}

\* WHERE granted = true AND mode = 'AccessExclusiveLock'
Selected(src) == {l \in src : l.granted /\ l.mode = ExclusiveMode}

\* the rows the INSERT's SELECT yields at the scan instant
Snapshot(src, clock) == {Sample(l, clock) : l \in Selected(src)}

\* the selected rows written over the rows of the table
INSERT_INTO_Replace(t, batch) == [t EXCEPT !.rows = batch]

\* INSERT INTO locktracking(...) SELECT ...: the selected rows, appended in
\* the order the server produced them
INSERT_INTO(t, batch) == [t EXCEPT !.rows = @ \o batch]

(* ------------------------------ the report ---------------------------- *)

\* GROUP by pid alone
Identity_PidOnly(s) == <<s.pid>>

\* GROUP by pid, db, relation, startedAt, query
Identity(s) == <<s.pid, s.db, s.relation, s.startedAt, s.query>>

\* SELECT pid, db, relation, startedAt, query, MAX(age) as duration ... GROUP by
Groups(rs) ==
    {[pid |-> s.pid, db |-> s.db, relation |-> s.relation,
      startedAt |-> s.startedAt, query |-> s.query,
      duration |-> Max({r.age : r \in {x \in Range(rs) : Identity(x) = Identity(s)}})]
        : s \in Range(rs)}

\* no ORDER BY: the groups in any order
Ordered_Any(q) == TRUE

\* ORDER BY startedAt: ascending, rows with equal startedAt in any order
Ordered(q) == \A a, b \in 1..Len(q) : a < b => q[a].startedAt <= q[b].startedAt

\* the results the REPORT query may return on table t
REPORT(t) == {q \in Orderings(Groups(t.rows)) : Ordered(q)}

\* DetectedLock { pid: row.get(0), ..., age: row.get(5) } and the println! of it.
\* row.get is the driver's: it is taken to hand over the value of the column.
ReportLine(idx, row) ==
    [k |-> "lock", idx |-> idx, pid |-> row.pid, db |-> row.db,
     relation |-> row.relation, started_at |-> row.startedAt,
     query |-> row.query, age |-> row.duration]

(* ---------------------------- console lines --------------------------- *)

Line(kind) == [k |-> kind]
FoundLine(n) == [k |-> "found", n |-> n]
Kinds(out) == {out[j].k : j \in 1..Len(out)}

(* ------------------------------- Init --------------------------------- *)

\* nothing installed, no lock held, no process started
Init ==
    /\ pc = "idle"
    /\ cmd = "none"
    /\ flag_reset = FALSE
    /\ exitCode = -1
    /\ conn = "none"
    /\ lockTracking = NoTable
    /\ locks = {}
    /\ now = 0
    /\ i = 0
    /\ previously_found = 0
    /\ found = 0
    /\ rows = <<>>
    /\ stdout = <<>>
    /\ stderr = <<>>
    /\ ticks = 0
    /\ lastCount = -1
    /\ appends = 0
    /\ counted = 0
    /\ faulted = FALSE
    /\ before = NoTable
    /\ reported = NoReports

(* --------------------------- the environment -------------------------- *)

\* session p starts a query that asks for a lock: a row of pg_locks
LockRequest(p, m, g) ==
    /\ \A l \in locks : l.pid # p
    /\ locks' = locks \cup {[pid |-> p, mode |-> m, granted |-> g, startedAt |-> now]}
    /\ UNCHANGED <<now, lockTracking>>
    /\ UNCHANGED procVars

\* a waiting lock is granted
LockGrant(p) ==
    /\ \E l \in locks :
        /\ l.pid = p
        /\ ~l.granted
        /\ locks' = (locks \ {l}) \cup {[l EXCEPT !.granted = TRUE]}
    /\ UNCHANGED <<now, lockTracking>>
    /\ UNCHANGED procVars

\* session p ends its transaction
LockRelease(p) ==
    /\ \E l \in locks : l.pid = p /\ locks' = locks \ {l}
    /\ UNCHANGED <<now, lockTracking>>
    /\ UNCHANGED procVars

\* the server clock advances
ClockTick ==
    /\ now < MaxTime
    /\ now' = now + 1
    /\ UNCHANGED <<locks, lockTracking>>
    /\ UNCHANGED procVars

\* the connection of the running process breaks
ConnectionLost ==
    /\ conn = "open"
    /\ conn' = "broken"
    /\ UNCHANGED <<pc, cmd, flag_reset, exitCode, i, previously_found, found,
                   rows, stdout, stderr, ticks, lastCount, appends, counted, faulted,
                   before, reported>>
    /\ UNCHANGED <<locks, now, lockTracking>>

(* ------------------------------- main --------------------------------- *)

\* the process ends with status code: its connection and its locals are gone
Exit(code) ==
    /\ pc' = "exited"
    /\ exitCode' = code
    /\ conn' = "none"
    /\ i' = 0
    /\ previously_found' = 0
    /\ found' = 0
    /\ rows' = <<>>
    /\ ticks' = 0
    /\ lastCount' = -1
    /\ appends' = 0
    /\ counted' = 0

\* the operator runs `birdwatcher c [--reset]`: docopt fills Args
\* (USAGE has --reset on the scan line alone)
Start(c, r) ==
    /\ pc \in {"idle", "exited"}
    /\ r => c = "scan"
    /\ pc' = "connect"
    /\ cmd' = c
    /\ flag_reset' = r
    /\ exitCode' = -1
    /\ conn' = "none"
    /\ i' = 0
    /\ previously_found' = 0
    /\ found' = 0
    /\ rows' = <<>>
    /\ stdout' = <<>>
    /\ stderr' = <<>>
    /\ ticks' = 0
    /\ lastCount' = -1
    /\ appends' = 0
    /\ counted' = 0
    /\ faulted' = FALSE
    /\ before' = NoTable
    /\ UNCHANGED reported
    /\ UNCHANGED <<locks, now, lockTracking>>

\* connect ending the process with the status of a success
ConnectExitCode_Success == 1 - 1

\* connect: ::std::process::exit(1)
ConnectExitCode == 1

\* connect(), then main's dispatch on the subcommand
Connect ==
    /\ pc = "connect"
    /\ \E ok \in BOOLEAN :
        IF ok
        THEN /\ conn' = "open"
             /\ pc' = cmd
             /\ stdout' = Append(stdout, Line("connecting"))
             /\ UNCHANGED <<exitCode, stderr, rows>>
             /\ UNCHANGED scanLocals
        ELSE /\ stdout' = Append(stdout, Line("connecting"))
             /\ stderr' = Append(stderr, Line("connect_failed"))
             /\ Exit(ConnectExitCode)
    /\ UNCHANGED <<cmd, flag_reset, faulted, before, reported>>
    /\ UNCHANGED <<locks, now, lockTracking>>

(* ------------------------------ install ------------------------------- *)

\* DROP TABLE without IF EXISTS: an error on a missing table
DropFails_Strict(t, fault) == Fails(fault) \/ ~t.exists

\* DROP TABLE IF EXISTS is no error on a missing table
DropFails(t, fault) == Fails(fault)

\* CREATE TABLE IF NOT EXISTS is no error on an existing table
CreateFails(t, fault) == Fails(fault)

\* the Err arm of the match on CREATE_TABLE falling through to "ready to scan!"
CreateErr_FallThrough == [code |-> 0, out |-> <<[k |-> "ready"]>>]

\* install, the Err arm of the match on CREATE_TABLE: eprintln!, then
\* std::process::exit(1), nothing on the output
CreateErr == [code |-> 1, out |-> <<>>]

\* install: println!, then the DROP_TABLE match
InstallDrop ==
    /\ pc = "install"
    /\ stdout' = Append(stdout, Line("installing"))
    /\ before' = lockTracking
    /\ reported' = NoReports
    /\ \E fault \in BOOLEAN :
        /\ faulted' = Fails(fault)
        /\ IF DropFails(lockTracking, fault)
           THEN /\ stderr' = Append(stderr, Line("drop_failed"))
                /\ UNCHANGED lockTracking
           ELSE /\ lockTracking' = DROP_TABLE(lockTracking)
                /\ UNCHANGED stderr
    /\ pc' = "install_create"
    /\ UNCHANGED <<cmd, flag_reset, exitCode, conn, rows>>
    /\ UNCHANGED scanLocals
    /\ UNCHANGED envVars

\* install: the CREATE_TABLE match; on Ok main returns
InstallCreate ==
    /\ pc = "install_create"
    /\ \E fault \in BOOLEAN :
        /\ faulted' = Fails(fault)
        /\ IF CreateFails(lockTracking, fault)
           THEN /\ stderr' = Append(stderr, Line("create_failed"))
                /\ stdout' = stdout \o CreateErr.out
                /\ Exit(CreateErr.code)
                /\ UNCHANGED lockTracking
           ELSE /\ lockTracking' = CREATE_TABLE(lockTracking)
                /\ stdout' = Append(stdout, Line("ready"))
                /\ Exit(0)
                /\ UNCHANGED stderr
    /\ UNCHANGED <<cmd, flag_reset, before, reported>>
    /\ UNCHANGED envVars

(* -------------------------------- scan -------------------------------- *)

\* scan: println!, let mut i = 0, let mut previously_found = 0
ScanStart ==
    /\ pc = "scan"
    /\ stdout' = Append(stdout, Line("scanning"))
    /\ i' = 0
    /\ previously_found' = 0
    /\ pc' = "scan_exec"
    /\ UNCHANGED <<cmd, flag_reset, exitCode, conn, found, rows, stderr,
                   ticks, lastCount, appends, counted, faulted, before, reported>>
    /\ UNCHANGED <<locks, now, lockTracking>>

\* the Err arm keeping the count of the tick before
FailedCount_Stale == previously_found

\* the value of the Err arm of the match on the INSERT
FailedCount == 0

\* the test on the count taken for a rise: found > previously_found
Emits_Rising(idx, f, prev) == idx = 0 \/ f > prev

\* the if with its test always true: a summary on every tick
Emits_Always(idx, f, prev) == TRUE

\* if i == 0 || found != previously_found
Emits(idx, f, prev) == idx = 0 \/ f # prev

\* the index without its modulo: i = i + 1
NextIndex_NoWrap(idx) == idx + 1

\* i = (i + 1) % 50
NextIndex(idx) == (idx + 1) % HeartbeatPeriod

\* INSERT INTO locktracking is an error on a missing table
InsertFails(t, fault) == Fails(fault) \/ ~t.exists

\* loop body, first statement: let found = match connection.execute(INSERT_INTO)
\* The console of the model is the console of the tick: it is cleared here.
ScanExec(cap) ==
    /\ pc = "scan_exec"
    /\ ticks < cap
    /\ appends' = appends + 1
    /\ \E fault \in BOOLEAN :
        /\ faulted' = Fails(fault)
        /\ IF InsertFails(lockTracking, fault)
           THEN /\ stderr' = <<Line("scan_failed")>>
                /\ found' = FailedCount
                /\ UNCHANGED lockTracking
           ELSE \E batch \in Orderings(Snapshot(locks, now)) :
                /\ Len(lockTracking.rows) + Len(batch) <= MaxRows
                /\ lockTracking' = INSERT_INTO(lockTracking, batch)
                /\ found' = Len(batch)
                /\ stderr' = <<>>
    /\ counted' = counted + found'
    /\ stdout' = <<>>
    /\ pc' = "scan_emit"
    /\ UNCHANGED <<cmd, flag_reset, exitCode, conn, i, previously_found, rows,
                   ticks, lastCount, before, reported>>
    /\ UNCHANGED envVars

\* the loop body without its thread::sleep: the next INSERT follows at once
ScanEmit_NoSleep ==
    /\ pc = "scan_emit"
    /\ IF Emits(i, found, previously_found)
       THEN /\ stdout' = Append(stdout, FoundLine(found))
            /\ previously_found' = found
       ELSE UNCHANGED <<stdout, previously_found>>
    /\ i' = NextIndex(i)
    /\ pc' = "scan_exec"
    /\ UNCHANGED <<cmd, flag_reset, exitCode, conn, found, rows, stderr,
                   ticks, lastCount, appends, counted, faulted, before, reported>>
    /\ UNCHANGED <<locks, now, lockTracking>>

\* loop body: the if on the count, then the index
ScanEmit ==
    /\ pc = "scan_emit"
    /\ IF Emits(i, found, previously_found)
       THEN /\ stdout' = Append(stdout, FoundLine(found))
            /\ previously_found' = found
       ELSE UNCHANGED <<stdout, previously_found>>
    /\ i' = NextIndex(i)
    /\ pc' = "scan_sleep"
    /\ UNCHANGED <<cmd, flag_reset, exitCode, conn, found, rows, stderr,
                   ticks, lastCount, appends, counted, faulted, before, reported>>
    /\ UNCHANGED <<locks, now, lockTracking>>

\* the loop going round the INSERT when the count did not change
ScanSleep_Gated ==
    /\ pc = "scan_sleep"
    /\ pc' = IF found = lastCount THEN "scan_emit" ELSE "scan_exec"
    /\ ticks' = ticks + 1
    /\ lastCount' = found
    /\ appends' = 0
    /\ UNCHANGED counted
    /\ UNCHANGED <<cmd, flag_reset, exitCode, conn, i, previously_found, found,
                   rows, stdout, stderr, faulted, before, reported>>
    /\ UNCHANGED <<locks, now, lockTracking>>

\* loop body, last statement: thread::sleep returns and the loop repeats
ScanSleep ==
    /\ pc = "scan_sleep"
    /\ pc' = "scan_exec"
    /\ ticks' = ticks + 1
    /\ lastCount' = found
    /\ appends' = 0
    /\ UNCHANGED counted
    /\ UNCHANGED <<cmd, flag_reset, exitCode, conn, i, previously_found, found,
                   rows, stdout, stderr, faulted, before, reported>>
    /\ UNCHANGED <<locks, now, lockTracking>>

\* the loop has no exit: the operator ends the detector by a signal
Kill ==
    /\ pc \in {"scan_exec", "scan_emit", "scan_sleep"}
    /\ Exit(143)
    /\ UNCHANGED <<cmd, flag_reset, stdout, stderr, faulted, before, reported>>
    /\ UNCHANGED <<locks, now, lockTracking>>

(* ------------------------------- report ------------------------------- *)

\* SELECT ... FROM locktracking is an error on a missing table
SelectFails(t, fault) == Fails(fault) \/ ~t.exists

\* unwrap_or_default in the place of unwrap: an Err read as no rows
UnwrapErr_Default == [code |-> 0, out |-> <<[k |-> "no_lock"]>>]

\* connection.query(REPORT, &[]).unwrap() on Err: the panic prints the error on
\* the error stream, prints nothing on the output and ends the process with
\* the status of a Rust panic
UnwrapErr == [code |-> 101, out |-> <<>>]

\* the test on rows.len() left out
NoRows_Never(r) == FALSE

\* if rows.len() == 0
NoRows(r) == Len(r) = 0

\* report: let mut i = 0, the query and its unwrap, the test on rows.len()
\* keep: the history variable reported records the rows of this report
ReportQuery(keep) ==
    /\ pc = "report"
    /\ \E fault \in BOOLEAN :
        /\ faulted' = Fails(fault)
        /\ IF SelectFails(lockTracking, fault)
           THEN /\ stderr' = Append(stderr, Line("query_failed"))
                /\ stdout' = stdout \o UnwrapErr.out
                /\ Exit(UnwrapErr.code)
                /\ UNCHANGED reported
           ELSE \E r \in REPORT(lockTracking) :
                /\ IF NoRows(r)
                   THEN /\ stdout' = Append(stdout, Line("no_lock"))
                        /\ Exit(0)
                   ELSE /\ pc' = "report_loop"
                        /\ i' = 0
                        /\ rows' = r
                        /\ UNCHANGED <<exitCode, conn, stdout, previously_found,
                                       found, ticks, lastCount, appends, counted>>
                /\ UNCHANGED stderr
                /\ reported' = IF keep THEN [earlier |-> reported.later, later |-> r]
                                       ELSE reported
    /\ UNCHANGED <<cmd, flag_reset, before>>
    /\ UNCHANGED <<locks, now, lockTracking>>

\* one iteration of for row in &rows
ReportRow ==
    /\ pc = "report_loop"
    /\ i < Len(rows)
    /\ stdout' = Append(stdout, ReportLine(i, rows[i + 1]))
    /\ i' = i + 1
    /\ UNCHANGED <<pc, cmd, flag_reset, exitCode, conn, previously_found, found,
                   rows, stderr, ticks, lastCount, appends, counted, faulted, before, reported>>
    /\ UNCHANGED <<locks, now, lockTracking>>

\* the for loop is over: report returns, main returns
ReportReturn ==
    /\ pc = "report_loop"
    /\ i = Len(rows)
    /\ Exit(0)
    /\ UNCHANGED <<cmd, flag_reset, stdout, stderr, faulted, before, reported>>
    /\ UNCHANGED <<locks, now, lockTracking>>

(* --------------------------- specifications --------------------------- *)

Environment ==
    \/ \E p \in Pids, r \in Requests : LockRequest(p, r[1], r[2])
    \/ \E p \in Pids : LockGrant(p)
    \/ \E p \in Pids : LockRelease(p)
    \/ ClockTick
    \/ ConnectionLost

Next ==
    \/ \E c \in Commands, r \in BOOLEAN : Start(c, r)
    \/ Connect
    \/ InstallDrop
    \/ InstallCreate
    \/ ScanStart
    \/ ScanExec(MaxTicks)
    \/ ScanEmit
    \/ ScanSleep
    \/ Kill
    \/ ReportQuery(FALSE)
    \/ ReportRow
    \/ ReportReturn
    \/ Environment

Spec == Init /\ [][Next]_vars

(* A long run of the detector on an installed or a missing table, with granted *)
(* exclusive locks coming and going: the index i goes round more than once.  *)

InitDetector ==
    /\ pc = "idle"
    /\ cmd = "none"
    /\ flag_reset = FALSE
    /\ exitCode = -1
    /\ conn = "none"
    /\ lockTracking \in {NoTable, EmptyTable}
    /\ locks = {}
    /\ now = 0
    /\ i = 0
    /\ previously_found = 0
    /\ found = 0
    /\ rows = <<>>
    /\ stdout = <<>>
    /\ stderr = <<>>
    /\ ticks = 0
    /\ lastCount = -1
    /\ appends = 0
    /\ counted = 0
    /\ faulted = FALSE
    /\ before = NoTable
    /\ reported = NoReports

NextDetector ==
    \/ Start("scan", FALSE)
    \/ Connect
    \/ ScanStart
    \/ ScanExec(LongTicks)
    \/ ScanEmit
    \/ ScanSleep
    \/ \E p \in Pids : LockRequest(p, ExclusiveMode, TRUE)
    \/ \E p \in Pids : LockRelease(p)

SpecDetector == InitDetector /\ [][NextDetector]_vars

\* one thread runs the loop: each statement of the body returns and the next runs
FairDetector ==
    /\ SpecDetector
    /\ WF_vars(ScanExec(LongTicks))
    /\ WF_vars(ScanEmit)
    /\ WF_vars(ScanSleep)

(* The report on a table of any content: every sequence of up to ReportRows  *)
(* samples, in any order of insertion.                                        *)

\* samples in the table at the start of a report run
ReportRows == 3

\* the ages of the samples: 50 ms, 90 ms, 120 ms
Ages == {50, 90, 120}

StoredSamples ==
    {[mode |-> ExclusiveMode, pid |-> p, db |-> DbName, relation |-> RelName,
      username |-> UserName, application |-> AppName,
      startedAt |-> t, age |-> a, query |-> QueryText]
        : p \in Pids, t \in 0..MaxTime, a \in Ages}

InitReport ==
    /\ pc = "idle"
    /\ cmd = "none"
    /\ flag_reset = FALSE
    /\ exitCode = -1
    /\ conn = "none"
    /\ \/ lockTracking = NoTable
       \/ \E n \in 0..ReportRows : \E rs \in [1..n -> StoredSamples] :
            lockTracking = [exists |-> TRUE, rows |-> rs]
    /\ locks = {}
    /\ now = 0
    /\ i = 0
    /\ previously_found = 0
    /\ found = 0
    /\ rows = <<>>
    /\ stdout = <<>>
    /\ stderr = <<>>
    /\ ticks = 0
    /\ lastCount = -1
    /\ appends = 0
    /\ counted = 0
    /\ faulted = FALSE
    /\ before = NoTable
    /\ reported = NoReports

NextReport ==
    \/ Start("report", FALSE)
    \/ Connect
    \/ ReportQuery(FALSE)
    \/ ReportRow
    \/ ReportReturn
    \/ ConnectionLost

SpecReport == InitReport /\ [][NextReport]_vars

(* ------------------------------- claims ------------------------------- *)

\* the tick under way has printed its count summary
Summary == \E j \in 1..Len(stdout) : stdout[j].k = "found"

\* the bookkeeping of the tick under way is done: the detector sleeps
TickDone == pc = "scan_sleep"

\* C1 as stated: a summary is printed on a tick only if the tick is the very
\* first of the run or its count differs from the count of the tick before.
\* Violated on tick 50 of a run whose count did not change.
C1_AsStated == (TickDone /\ Summary) => (ticks = 0 \/ found # lastCount)

\* C1, amended: a summary is printed on a tick only if the number of the tick in
\* the run is a multiple of 50 (the very first tick is tick 0) or its count
\* differs from the count of the tick before; on every other tick nothing is
\* printed.
C1_ChangeSuppression ==
    (TickDone /\ Summary) => (ticks % HeartbeatPeriod = 0 \/ found # lastCount)

\* a later tick found as many locks as the tick before it, not zero, and
\* printed nothing
C1_Witness ==
    TickDone /\ ticks > 0 /\ found = lastCount /\ found > 0 /\ stdout = <<>>

\* the samples in the table
Stored == Range(lockTracking.rows)

\* the episode of a sample and of a report line: (pid, db, relation, started_at, query)
EpisodeOf(s) == <<s.pid, s.db, s.relation, s.startedAt, s.query>>
LineEpisode(l) == <<l.pid, l.db, l.relation, l.started_at, l.query>>

\* the positions in the output of the report lines
LockLines == {j \in 1..Len(stdout) : stdout[j].k = "lock"}

\* the process connected
Connected == ~("connect_failed" \in Kinds(stderr))

\* a report invocation has ended with success
ReportDone == pc = "exited" /\ cmd = "report" /\ exitCode = 0

\* a report invocation has ended whose query failed
ReportFailed ==
    /\ pc = "exited"
    /\ cmd = "report"
    /\ Connected
    /\ (faulted \/ ~lockTracking.exists)

\* C2: the report holds exactly one line for each episode (pid, db, relation,
\* started_at, query) in the table, every line is of an episode in the table,
\* and the duration on a line is the largest age among the samples of its
\* episode, whatever their number and their order of insertion.
C2_EpisodeCollapse ==
    ReportDone =>
        /\ \A s \in Stored :
            Cardinality({j \in LockLines : LineEpisode(stdout[j]) = EpisodeOf(s)}) = 1
        /\ \A j \in LockLines :
            /\ \E s \in Stored : EpisodeOf(s) = LineEpisode(stdout[j]) /\ s.age = stdout[j].age
            /\ \A s \in Stored : EpisodeOf(s) = LineEpisode(stdout[j]) => s.age <= stdout[j].age

\* three samples of one episode inserted with ages 50, 120, 90 and reported on
\* one line with 120
C2_Witness ==
    /\ ReportDone
    /\ Len(lockTracking.rows) = 3
    /\ \A a, b \in Stored : EpisodeOf(a) = EpisodeOf(b)
    /\ <<lockTracking.rows[1].age, lockTracking.rows[2].age, lockTracking.rows[3].age>>
         = <<50, 120, 90>>
    /\ Cardinality(LockLines) = 1
    /\ \A j \in LockLines : stdout[j].age = 120

\* C3: report lines come in ascending started_at, so that of two episodes with
\* started_at T1 < T2 the line of the first precedes the line of the second
\* whatever the order of insertion of their samples; the indices on the lines
\* are 0, 1, 2, ... in the order of printing.
C3_Ordering ==
    /\ \A a, b \in LockLines : a < b => stdout[a].started_at <= stdout[b].started_at
    /\ \A j \in LockLines : stdout[j].idx = Cardinality({a \in LockLines : a < j})
    /\ ReportDone =>
        \A s1, s2 \in Stored :
            s1.startedAt < s2.startedAt =>
                \E a, b \in LockLines :
                    /\ a < b
                    /\ LineEpisode(stdout[a]) = EpisodeOf(s1)
                    /\ LineEpisode(stdout[b]) = EpisodeOf(s2)

\* the sample of the later episode was inserted first, and both are reported
C3_Witness ==
    /\ ReportDone
    /\ Len(lockTracking.rows) >= 2
    /\ lockTracking.rows[1].startedAt > lockTracking.rows[2].startedAt
    /\ lockTracking.rows[1].pid # lockTracking.rows[2].pid
    /\ Cardinality(LockLines) = 2

\* C7: a report whose query succeeds ends with status 0; on a table without
\* rows it prints the "no lock" message and no report line, on a table with
\* rows it prints at least one report line and never the "no lock" message.
C7_EmptyReport ==
    /\ (pc = "exited" /\ cmd = "report" /\ Connected /\ ~faulted /\ lockTracking.exists) =>
        /\ exitCode = 0
        /\ IF lockTracking.rows = <<>>
           THEN "no_lock" \in Kinds(stdout) /\ LockLines = {}
           ELSE ~("no_lock" \in Kinds(stdout)) /\ LockLines # {}
    /\ pc = "report_loop" => ~("no_lock" \in Kinds(stdout))

\* a report on an existing table without rows has printed the message
C7_Witness ==
    /\ ReportDone
    /\ lockTracking = EmptyTable
    /\ "no_lock" \in Kinds(stdout)

\* C9: a report whose query fails ends with a status other than 0, having
\* printed no report line and no "no lock" message.
C9_QueryFailureFatal ==
    ReportFailed =>
        /\ exitCode # 0
        /\ LockLines = {}
        /\ ~("no_lock" \in Kinds(stdout))

\* the query was refused on a table that holds samples
C9_Witness ==
    /\ ReportFailed
    /\ faulted
    /\ lockTracking.exists
    /\ lockTracking.rows # <<>>
    /\ exitCode # 0

\* an install invocation has connected and ended
InstallDone == pc = "exited" /\ cmd = "install" /\ Connected

\* C4: an install whose statements the server does not refuse leaves the table
\* existing and empty whatever it found (no table, an empty table, a table
\* holding samples), so a second install right after leaves the same state; the
\* destroy step logs no error and leaves no table, also when there was none.
C4_IdempotentInstall ==
    /\ (pc = "install_create" /\ ~faulted) =>
        /\ ~("drop_failed" \in Kinds(stderr))
        /\ lockTracking = NoTable
    /\ (InstallDone /\ ~faulted /\ ~("drop_failed" \in Kinds(stderr))) =>
        /\ exitCode = 0
        /\ "ready" \in Kinds(stdout)
        /\ lockTracking = EmptyTable

\* an install has run on a table holding samples and left it empty
C4_Witness ==
    /\ InstallDone
    /\ exitCode = 0
    /\ before.exists
    /\ before.rows # <<>>
    /\ stderr = <<>>
    /\ lockTracking = EmptyTable

\* C10: in install a failed destroy step is logged and does not end the
\* process: the create step comes next whatever the outcome of the destroy
\* step; a failed create step ends the process with a status other than 0 and
\* "ready" is never printed.
C10_InstallFailures ==
    /\ [](((pc = "install_create" /\ faulted) => "drop_failed" \in Kinds(stderr))
          /\ ((InstallDone /\ faulted) =>
                /\ exitCode # 0
                /\ "create_failed" \in Kinds(stderr)
                /\ ~("ready" \in Kinds(stdout)))
          /\ ((InstallDone /\ "drop_failed" \in Kinds(stderr)) =>
                ("create_failed" \in Kinds(stderr) \/ "ready" \in Kinds(stdout))))
    /\ [][pc = "install" => pc' \in {"install", "install_create"}]_vars

\* the destroy step failed, the create step was tried and failed too
C10_Witness ==
    /\ InstallDone
    /\ Kinds(stderr) = {"drop_failed", "create_failed"}
    /\ exitCode = 1
    /\ before.rows # <<>>

\* the detector is in its loop
InLoop == pc \in {"scan_exec", "scan_emit", "scan_sleep"}

\* the INSERT of the tick under way failed
AppendFailed ==
    /\ pc \in {"scan_emit", "scan_sleep"}
    /\ (faulted \/ ~lockTracking.exists)

\* C5: when the INSERT of a tick fails, the failure is logged, the count of the
\* tick is 0, also as the count the next tick is compared with, and the table
\* is as it was before the tick; the detector stays in its loop, and (up to
\* the bound on the ticks of a run) comes to the INSERT of the next tick.
C5_AppendFailure ==
    /\ [](AppendFailed => (found = 0 /\ "scan_failed" \in Kinds(stderr)))
    /\ []((AppendFailed /\ TickDone) => previously_found = 0)
    /\ [][(pc = "scan_exec" /\ pc' = "scan_emit" /\ (faulted' \/ ~lockTracking.exists))
            => lockTracking' = lockTracking]_vars
    /\ [][InLoop => InLoop']_vars
    /\ [](((AppendFailed /\ ticks < LongTicks - 1) => <>(pc = "scan_exec")))

\* the INSERT was refused on a tick after one that had found a lock: the count
\* falls to 0, the summary says so, the table keeps its sample
C5_Witness ==
    /\ AppendFailed
    /\ TickDone
    /\ faulted
    /\ lastCount > 0
    /\ lockTracking.rows # <<>>
    /\ found = 0
    /\ Summary

\* C6: every tick makes its INSERT attempt exactly once, whether it prints a
\* summary or not and whatever its count: none is made before the INSERT
\* statement of the tick, one has been made after it; and after every tick (up to
\* the bound on the ticks of a run) the INSERT of a further tick is made.
C6_EveryTickWrites ==
    /\ [](pc = "scan_exec" => appends = 0)
    /\ [](pc \in {"scan_emit", "scan_sleep"} => appends = 1)
    /\ []((TickDone /\ ticks < LongTicks - 1) => <>(pc = "scan_emit" /\ appends = 1))

\* a tick after the first found no lock, as the tick before it, printed
\* nothing and made its INSERT
C6_Witness ==
    /\ TickDone
    /\ ticks > 0
    /\ ~faulted
    /\ lockTracking.exists
    /\ found = 0
    /\ lastCount = 0
    /\ stdout = <<>>
    /\ appends = 1

\* rs is an initial part of rs2
IsPrefix(rs, rs2) == Len(rs) <= Len(rs2) /\ \A j \in 1..Len(rs) : rs[j] = rs2[j]

ConnectFailed == pc = "exited" /\ ~Connected

\* the process is in install, scan or report
Dispatched == ~(pc \in {"idle", "connect", "exited"})

\* C11: a failed connection ends the process, whatever the subcommand, with a
\* status other than 0 and an error printed; nothing of install, scan or report
\* has been printed, the table is as it was, and install, scan and report run
\* only on a process that has connected.
C11_ConnectFailureFatal ==
    /\ [](ConnectFailed => (exitCode # 0 /\ Kinds(stdout) = {"connecting"}))
    /\ [](Dispatched => conn # "none")
    /\ [][(pc = "connect" /\ pc' # "connect") =>
            /\ lockTracking' = lockTracking
            /\ \/ (pc' = cmd /\ conn' = "open" /\ stderr' = <<>>)
               \/ (pc' = "exited" /\ exitCode' # 0 /\ "connect_failed" \in Kinds(stderr'))]_vars

\* a scan could not connect: it has ended with status 1 and the samples of the
\* table are as they were
C11_Witness ==
    /\ ConnectFailed
    /\ cmd = "scan"
    /\ exitCode = 1
    /\ lockTracking.rows # <<>>

\* C12: the ticks of a detector run do not overlap: the steps of a tick come in
\* the order INSERT, then count and summary, then sleep; the INSERT of the next
\* tick is made only once the sleep of the tick has returned; the table is
\* written by the INSERT step alone; no tick holds more than one INSERT.
C12_NoOverlap ==
    /\ [](appends \in {0, 1})
    /\ [][(InLoop /\ pc' # pc) =>
            \/ (pc = "scan_exec" /\ pc' = "scan_emit" /\ appends = 0 /\ appends' = 1
                /\ ticks' = ticks)
            \/ (pc = "scan_emit" /\ pc' = "scan_sleep" /\ appends' = appends
                /\ ticks' = ticks /\ lockTracking' = lockTracking)
            \/ (pc = "scan_sleep" /\ pc' = "scan_exec" /\ appends = 1 /\ appends' = 0
                /\ ticks' = ticks + 1 /\ lockTracking' = lockTracking)]_vars
    /\ [][(InLoop /\ pc' = pc) => (appends' = appends /\ ticks' = ticks
                                   /\ lockTracking' = lockTracking)]_vars

\* the second tick of a run has made its INSERT after the first tick made its
\* own and slept: each added a sample
C12_Witness ==
    /\ pc = "scan_emit"
    /\ ticks = 1
    /\ appends = 1
    /\ found = 1
    /\ lastCount = 1
    /\ Len(lockTracking.rows) = 2

(* A detector run on an installed, empty table with the whole lock source:   *)
(* locks of both modes, granted or waiting, and the clock.                    *)

\* ticks of the detector run in the specification of the sampling
SampleTicks == 3

InitSampling ==
    /\ pc = "idle"
    /\ cmd = "none"
    /\ flag_reset = FALSE
    /\ exitCode = -1
    /\ conn = "none"
    /\ lockTracking = EmptyTable
    /\ locks = {}
    /\ now = 0
    /\ i = 0
    /\ previously_found = 0
    /\ found = 0
    /\ rows = <<>>
    /\ stdout = <<>>
    /\ stderr = <<>>
    /\ ticks = 0
    /\ lastCount = -1
    /\ appends = 0
    /\ counted = 0
    /\ faulted = FALSE
    /\ before = NoTable
    /\ reported = NoReports

NextSampling ==
    \/ Start("scan", FALSE)
    \/ Connect
    \/ ScanStart
    \/ ScanExec(SampleTicks)
    \/ ScanEmit
    \/ ScanSleep
    \/ \E p \in Pids, r \in Requests : LockRequest(p, r[1], r[2])
    \/ \E p \in Pids : LockGrant(p)
    \/ \E p \in Pids : LockRelease(p)
    \/ ClockTick

SpecSampling == InitSampling /\ [][NextSampling]_vars

\* the INSERT of a tick has just been made
Inserted == pc = "scan_exec" /\ pc' = "scan_emit"

\* C13: of two samples of one episode (pid, db, relation, started_at, query)
\* that the ticks of a detector run appended, the one of the later tick has an
\* age at least that of the earlier; the age of a sample is the clock at the
\* INSERT less started_at.
C13_AgeMonotone ==
    /\ [](\A a, b \in 1..Len(lockTracking.rows) :
            (a < b /\ EpisodeOf(lockTracking.rows[a]) = EpisodeOf(lockTracking.rows[b]))
                => lockTracking.rows[a].age <= lockTracking.rows[b].age)
    /\ [][Inserted =>
            \A j \in (Len(lockTracking.rows) + 1)..Len(lockTracking'.rows) :
                lockTracking'.rows[j].age = now - lockTracking'.rows[j].startedAt]_vars

\* two ticks of a run saw the same lock, the second later on the clock
C13_Witness ==
    /\ cmd = "scan"
    /\ Len(lockTracking.rows) = 2
    /\ EpisodeOf(lockTracking.rows[1]) = EpisodeOf(lockTracking.rows[2])
    /\ lockTracking.rows[1].age < lockTracking.rows[2].age

\* C14: on every tick after the first of a run the value the count is compared
\* with, previously_found, is the count of the tick just before, whether that
\* tick printed a summary or not and whether its INSERT failed or not.
C14_ComparesWithPreviousTick ==
    (pc \in {"scan_exec", "scan_emit"} /\ ticks > 0) => previously_found = lastCount

\* the tick before printed no summary, its count being that of the tick before
\* it, and the count to compare with is that count
C14_Witness ==
    /\ pc = "scan_exec"
    /\ ticks >= 2
    /\ stdout = <<>>
    /\ lastCount = 1
    /\ previously_found = 1

\* C15: whenever install ends having printed "ready", the table exists, is empty
\* and holds none of the samples it held before the install, whatever the
\* outcome of the destroy step.
\* Violated: the server refuses the DROP on a table holding samples, CREATE
\* TABLE IF NOT EXISTS then succeeds on the table as it is.
C15_FreshAfterInstall ==
    (InstallDone /\ exitCode = 0 /\ "ready" \in Kinds(stdout)) =>
        /\ lockTracking = EmptyTable
        /\ \A s \in Range(before.rows) : ~(s \in Stored)

\* C16: when the connection is lost while the detector runs, the detector ends:
\* once the INSERT of a tick has failed on the lost connection, the loop begins
\* no further tick.
\* Violated: the Err arm of the match logs the error and gives the count 0, the
\* loop sleeps and executes the INSERT again on the same connection.
C16_TerminatesOnLoss ==
    [][(conn = "broken" /\ faulted /\ pc = "scan_sleep") => pc' # "scan_exec"]_vars

\* the rows the step has added at the end of the table
Added == SubSeq(lockTracking'.rows, Len(lockTracking.rows) + 1, Len(lockTracking'.rows))

\* the locks granted in the monitored mode
GrantedExclusive == {l \in locks : l.granted /\ l.mode = ExclusiveMode}

\* C17: an INSERT that succeeds appends one sample for each lock granted in
\* AccessExclusiveLock mode at that instant and for no other lock, the count of
\* the tick is the number of rows it appended (0 when the INSERT failed, which
\* appends nothing), and on a table empty at the start of the run the number of
\* rows is at any time the sum of the counts of the ticks.
C17_OneSamplePerLock ==
    /\ [][(Inserted /\ ~faulted') =>
            /\ Len(Added) = Cardinality(GrantedExclusive)
            /\ \A l \in GrantedExclusive : \E j \in 1..Len(Added) :
                    /\ Added[j].pid = l.pid
                    /\ Added[j].mode = l.mode
                    /\ Added[j].startedAt = l.startedAt
            /\ lockTracking'.rows = lockTracking.rows \o Added
            /\ found' = Len(Added)]_vars
    /\ [][(Inserted /\ faulted') =>
            (lockTracking' = lockTracking /\ found' = 0)]_vars
    /\ [](cmd = "scan" => Len(lockTracking.rows) = counted)

\* a tick has appended the sample of the one granted AccessExclusiveLock while
\* another lock, waiting or of another mode, was there and gave no sample; the
\* table holds the rows of two ticks
C17_Witness ==
    /\ pc = "scan_emit"
    /\ ~faulted
    /\ ticks > 0
    /\ found = 1
    /\ lastCount = 1
    /\ counted = 2
    /\ Len(lockTracking.rows) = 2
    /\ \E l \in locks : ~(l.granted /\ l.mode = ExclusiveMode)
    /\ \E l \in locks : l.granted /\ l.mode = ExclusiveMode

\* C18: the index i of the detector stays in 0..49 and is the number of the
\* tick modulo 50, so it is 0 again every 50 ticks; every tick whose number is
\* a multiple of 50 prints a summary, whatever the count and whether it changed
\* or not. Any 50 consecutive ticks hold one such tick.
C18_Heartbeat ==
    cmd = "scan" =>
        /\ i \in 0..(HeartbeatPeriod - 1)
        /\ pc \in {"scan_exec", "scan_emit"} => i = ticks % HeartbeatPeriod
        /\ pc = "scan_sleep" => i = (ticks + 1) % HeartbeatPeriod
        /\ (TickDone /\ ticks % HeartbeatPeriod = 0) => stdout = <<FoundLine(found)>>

\* the 51st tick of a run, the index being 0 again, has printed a summary of a
\* count that is the count of the tick before
C18_Witness ==
    /\ TickDone
    /\ ticks = HeartbeatPeriod
    /\ i = 1
    /\ found = lastCount
    /\ found = 1
    /\ stdout = <<FoundLine(1)>>

(* Detector runs and reports one after the other on an installed table, no   *)
(* install among them: the detector is ended by the operator, the rows of    *)
(* the last two answered reports are kept.                                   *)

InitHistory ==
    /\ pc = "idle"
    /\ cmd = "none"
    /\ flag_reset = FALSE
    /\ exitCode = -1
    /\ conn = "none"
    /\ lockTracking = EmptyTable
    /\ locks = {}
    /\ now = 0
    /\ i = 0
    /\ previously_found = 0
    /\ found = 0
    /\ rows = <<>>
    /\ stdout = <<>>
    /\ stderr = <<>>
    /\ ticks = 0
    /\ lastCount = -1
    /\ appends = 0
    /\ counted = 0
    /\ faulted = FALSE
    /\ before = NoTable
    /\ reported = NoReports

NextHistory ==
    \/ Start("scan", FALSE)
    \/ Start("report", FALSE)
    \/ Connect
    \/ ScanStart
    \/ ScanExec(MaxTicks)
    \/ ScanEmit
    \/ ScanSleep
    \/ Kill
    \/ ReportQuery(TRUE)
    \/ ReportRow
    \/ ReportReturn
    \/ \E p \in Pids : LockRequest(p, ExclusiveMode, TRUE)
    \/ \E p \in Pids : LockRelease(p)
    \/ ClockTick

SpecHistory == InitHistory /\ [][NextHistory]_vars

\* the positions of one episode in an earlier and in a later report
SameEpisode(a, b) == EpisodeOf(reported.earlier[a]) = EpisodeOf(reported.later[b])

\* C19: of two reports answered one after the other with detector ticks and no
\* install between them, the later lists every episode of the earlier with a
\* duration at least as large, and two episodes of the earlier with distinct
\* started_at come in the later in the same order.
C19_ReportsGrow ==
    /\ \A a \in 1..Len(reported.earlier) : \E b \in 1..Len(reported.later) :
            /\ SameEpisode(a, b)
            /\ reported.later[b].duration >= reported.earlier[a].duration
    /\ \A a1, a2 \in 1..Len(reported.earlier) :
       \A b1, b2 \in 1..Len(reported.later) :
            (/\ a1 < a2
             /\ reported.earlier[a1].startedAt # reported.earlier[a2].startedAt
             /\ SameEpisode(a1, b1)
             /\ SameEpisode(a2, b2)) => b1 < b2

\* the later report lists an episode of the earlier with a longer duration, a
\* tick between the two having sampled its lock again
C19_Witness ==
    /\ cmd = "report"
    /\ pc = "report_loop"
    /\ rows = reported.later
    /\ \E a \in 1..Len(reported.earlier) : \E b \in 1..Len(reported.later) :
            /\ SameEpisode(a, b)
            /\ reported.later[b].duration > reported.earlier[a].duration

====
